---- MODULE Spec2Model ----
(***************************************************************************)
(* Chunked-upload assembly and integrity engine of server/utils.py:        *)
(* chunk storage on disk, ordered merge, gzip and size verification, and   *)
(* the upload status kept in the File table.                               *)
(***************************************************************************)
EXTENDS Integers, Sequences, FiniteSets, TLC

(***************************************************************************)
(* Bounds                                                                  *)
(***************************************************************************)
MaxSeq == 1        \* chunk sequence numbers are 0..MaxSeq
MaxSize == 3       \* declared total_size is 1..MaxSize
NumProcs == 2      \* request handlers that run generate_file concurrently

(***************************************************************************)
(* Program constants                                                       *)
(***************************************************************************)
CHUNK_PREFIX == "chunk."
ChunkWidth == 8    \* the 08 of "{:08d}"

(***************************************************************************)
(* Inputs                                                                  *)
(***************************************************************************)
Tokens == {"t1"}
Identifiers == {"abc"}
SampleNames == {"s1"}
ChunkNumbers == 0..MaxSeq
TotalSizes == 1..MaxSize
Procs == 1..NumProcs
\* a file name is <<root, extension>>, as os.path.splitext splits it
FileNames == {<<"data", ".bin">>, <<"data", ".gz">>, <<"data", ".TGZ">>}
\* Bytes: "H" a gzip member header, "T" a gzip member trailer whose CRC and
\* length match, "X" any other byte.
Payloads == {<<"H">>, <<"T">>, <<"X", "X">>}

Range(s) == {s[i] : i \in DOMAIN s}

(***************************************************************************)
(* Paths and chunk names                                                   *)
(***************************************************************************)
DigitChars == <<"0", "1", "2", "3", "4", "5", "6", "7", "8", "9">>

CharOrd(c) == CHOOSE k \in 0..9 : DigitChars[k + 1] = c

RECURSIVE DigitsOf(_)
DigitsOf(n) ==
    IF n < 10 THEN <<DigitChars[n + 1]>>
    ELSE DigitsOf(n \div 10) \o <<DigitChars[(n % 10) + 1]>>

RECURSIVE ZeroPad(_, _)
ZeroPad(s, w) == IF Len(s) >= w THEN s ELSE ZeroPad(<<"0">> \o s, w)

\* "{}{}".format(CHUNK_PREFIX, chunk_number): the name without the padding
ChunkNameUnpadded(chunk_number) ==
    <<CHUNK_PREFIX>> \o DigitsOf(chunk_number)

\* "{}{:08d}".format(CHUNK_PREFIX, chunk_number), as a sequence of characters
\* after the prefix
ChunkName(chunk_number) ==
    <<CHUNK_PREFIX>> \o ZeroPad(DigitsOf(chunk_number), ChunkWidth)

get_tempdir(auth_token, identifier) == <<auth_token, identifier>>

get_chunk_filename(temp_dir, chunk_number) ==
    [dir |-> temp_dir, name |-> ChunkName(chunk_number)]

\* Python's string order: the first differing character decides, a proper
\* prefix sorts first
LexLess(a, b) ==
    \E i \in 1..(Len(a) + 1) :
        /\ i <= Len(b)
        /\ \A j \in 1..(i - 1) : a[j] = b[j]
        /\ \/ i > Len(a)
           \/ /\ i <= Len(a)
              /\ a[i] # b[i]
              /\ CharOrd(a[i]) < CharOrd(b[i])

\* every order a listing of the set S can come in
RECURSIVE Orderings(_)
Orderings(S) ==
    IF S = {} THEN {<<>>}
    ELSE UNION {{<<x>> \o s : s \in Orderings(S \ {x})} : x \in S}

\* the sorted list with the path p put in its place
RECURSIVE InsertPath(_, _)
InsertPath(p, sorted) ==
    IF sorted = <<>> THEN <<p>>
    ELSE IF LexLess(p.name, sorted[1].name) THEN <<p>> \o sorted
    ELSE <<sorted[1]>> \o InsertPath(p, Tail(sorted))

SortPathsUnsorted(chunk_paths) == chunk_paths

\* chunk_paths.sort()
RECURSIVE SortPaths(_)
SortPaths(chunk_paths) ==
    IF chunk_paths = <<>> THEN <<>>
    ELSE InsertPath(chunk_paths[1], SortPaths(Tail(chunk_paths)))

(***************************************************************************)
(* The file system: one directory per (auth_token, identifier)             *)
(***************************************************************************)
Dirs == {get_tempdir(t, i) : t \in Tokens, i \in Identifiers}

NoEntries == [n \in {} |-> <<>>]
NoDir == [exists |-> FALSE, entries |-> NoEntries]

isdir(d, dir) == d[dir].exists

\* os.path.isfile
isfile(d, dir, name) == d[dir].exists /\ name \in DOMAIN d[dir].entries

ReadFile(d, dir, name) == d[dir].entries[name]

\* open(path, 'wb') followed by writes and close: the file holds content
WriteFile(d, dir, name, content) ==
    [d EXCEPT ![dir].entries =
        [n \in (DOMAIN d[dir].entries) \cup {name} |->
            IF n = name THEN content ELSE d[dir].entries[n]]]

os_removeKeeps(d, dir, name) == d

\* os.remove of a file that exists
os_remove(d, dir, name) ==
    [d EXCEPT ![dir].entries =
        [n \in (DOMAIN d[dir].entries) \ {name} |-> d[dir].entries[n]]]

\* make_tempdir when the directory can be created
make_tempdir(d, dir) ==
    IF isdir(d, dir) THEN d ELSE [d EXCEPT ![dir].exists = TRUE]

\* glob(temp_dir/chunk.*): the paths found, in no particular order
get_file_chunks(d, temp_dir) ==
    IF ~isdir(d, temp_dir) THEN {}
    ELSE {[dir |-> temp_dir, name |-> n] :
            n \in {m \in DOMAIN d[temp_dir].entries : m[1] = CHUNK_PREFIX}}

\* os.listdir, os.remove of each entry, os.rmdir; OSError (directory absent)
\* is swallowed
remove_from_uploads(d, tempdir) ==
    IF ~isdir(d, tempdir) THEN d ELSE [d EXCEPT ![tempdir] = NoDir]

(***************************************************************************)
(* gzip                                                                    *)
(***************************************************************************)
LowerCase(ext) ==
    CASE ext = ".TGZ" -> ".tgz"
      [] ext = ".GZ" -> ".gz"
      [] OTHER -> ext

\* os.path.splitext(filename)[1].lower() in ['.gz', '.tgz']
is_gzip_file(filename) == LowerCase(filename[2]) \in {".gz", ".tgz"}

\* gzip.open(filename).read(1024 * 1024) on a file shorter than a megabyte:
\* the ways the read can end.  "ok": every member read to its trailer;
\* "IOError": not a gzipped file, or CRC check failed; "error": zlib.error
\* on invalid deflate data, or EOFError/struct.error on a stream that ends
\* before its trailer (which of IOError and the others a stream cut short
\* raises depends on the interpreter's gzip module).
RECURSIVE GzipRead(_)
GzipRead(content) ==
    IF content = <<>> THEN {"ok"}
    ELSE IF Head(content) # "H" THEN {"IOError"}
    ELSE LET rest == Tail(content)
         IN IF rest = <<>> THEN {"IOError", "error"}
            ELSE IF Head(rest) = "T" THEN GzipRead(Tail(rest))
            ELSE {"error"}

\* gzip_test: True, False (IOError caught), or the exception it lets through
gzip_test(content) ==
    {CASE o = "ok" -> "True"
       [] o = "IOError" -> "False"
       [] OTHER -> "raise" : o \in GzipRead(content)}

(***************************************************************************)
(* merge                                                                   *)
(***************************************************************************)
RECURSIVE ConcatFiles(_, _)
ConcatFiles(d, paths) ==
    IF paths = <<>> THEN <<>>
    ELSE ReadFile(d, paths[1].dir, paths[1].name) \o ConcatFiles(d, Tail(paths))

\* where an IOError can strike in merge_chunks over n chunks: 0 nowhere,
\* 1 opening the output, k + 1 reading the k-th chunk
FailurePoints(n) == 0..(n + 1)

\* merge_chunks whose except branch leaves the output file behind
merge_chunksNoCleanup(d, chunk_paths, filename, failAt) ==
    LET sorted == SortPaths(chunk_paths)
        outdir == sorted[1].dir
    IN IF failAt = 0
       THEN [ok |-> TRUE,
             disk |-> WriteFile(d, outdir, filename, ConcatFiles(d, sorted))]
       ELSE IF failAt = 1
       THEN [ok |-> FALSE, disk |-> d]
       ELSE [ok |-> FALSE,
             disk |-> WriteFile(d, outdir, filename,
                                ConcatFiles(d, SubSeq(sorted, 1, failAt - 2)))]

\* merge_chunks for a non-empty chunk_paths; failAt is where the file system
\* raises IOError
merge_chunks(d, chunk_paths, filename, failAt) ==
    LET sorted == SortPaths(chunk_paths)
        outdir == sorted[1].dir
    IN IF failAt = 0
       THEN [ok |-> TRUE,
             disk |-> WriteFile(d, outdir, filename, ConcatFiles(d, sorted))]
       ELSE IF failAt = 1
       THEN [ok |-> FALSE, disk |-> d]
       ELSE [ok |-> FALSE,
             disk |-> os_remove(
                        WriteFile(d, outdir, filename,
                                  ConcatFiles(d, SubSeq(sorted, 1, failAt - 2))),
                        outdir, filename)]

(***************************************************************************)
(* The File and Sample tables                                              *)
(***************************************************************************)
Statuses == {"ongoing", "complete", "corrupt", "unmerged"}
Terminal == {"complete", "corrupt", "unmerged"}

NoFile ==
    [exists |-> FALSE, filename |-> <<>>, total_size |-> 0, user_id |-> "",
     upload_status |-> "", upload_start_date |-> "None",
     upload_end_date |-> "None", is_archived |-> 0, samples |-> {}]

\* Access rows of the tokens issued before the uploads start
get_user_by_auth_token(auth_token) == "server1/" \o auth_token

\* get_or_create_sample without a concurrent writer
get_or_create_sample(s, sample_name, user_id) ==
    s \cup {<<user_id, sample_name>>}

\* the File row written by get_or_create_file; the descriptive columns
\* (file_type, readset, platform, ...) are copied from data like filename
get_or_create_file(f, data) ==
    LET user_id == get_user_by_auth_token(data.auth_token)
        file == f[data.identifier]
    IN [f EXCEPT ![data.identifier] =
          [exists |-> TRUE,
           filename |-> data.filename,
           total_size |-> data.total_size,
           user_id |-> user_id,
           upload_status |-> "ongoing",
           upload_start_date |-> "today",
           upload_end_date |-> file.upload_end_date,
           is_archived |-> 0,
           samples |-> file.samples \cup {<<user_id, data.sample_name>>}]]

update_file_status(f, identifier, status) ==
    IF f[identifier].exists
    THEN [f EXCEPT ![identifier].upload_status = status,
                   ![identifier].upload_end_date =
                       IF status # "ongoing" THEN "today" ELSE @]
    ELSE f

(***************************************************************************)
(* finalize                                                                *)
(***************************************************************************)
return_message(message, status_code) ==
    [message |-> message, status_code |-> status_code]

\* an exception that leaves generate_file
Unhandled(exception) == [message |-> exception, status_code |-> 0]
NoResponse == [message |-> "", status_code |-> 0]

\* the checks on the merged file, with the chunks removed on success
VerifyRemovesChunks(d, f, data, temp_dir) ==
    LET merged_file == data.filename
        content == ReadFile(d, temp_dir, merged_file)
        sizeBranch ==
            IF Len(content) # data.total_size
            THEN [disk |-> os_remove(d, temp_dir, merged_file), files |-> f,
                  resp |-> return_message("Error: Inconsistent merged file size", 415)]
            ELSE [disk |-> WriteFile(remove_from_uploads(d, temp_dir),
                                     temp_dir, merged_file, content),
                  files |-> update_file_status(f, data.identifier, "complete"),
                  resp |-> return_message("Success: File upload completed successfully", 200)]
    IN IF ~is_gzip_file(data.filename) THEN {sizeBranch}
       ELSE {CASE g = "True" -> sizeBranch
               [] g = "False" ->
                    [disk |-> remove_from_uploads(d, temp_dir),
                     files |-> update_file_status(f, data.identifier, "corrupt"),
                     resp |-> return_message("Error: Truncated GZIP file", 415)]
               [] OTHER ->
                    [disk |-> d, files |-> f, resp |-> Unhandled("gzip read error")]
             : g \in gzip_test(content)}

\* lines 201-212: the checks on the merged file
Verify(d, f, data, temp_dir) ==
    LET merged_file == data.filename
        content == ReadFile(d, temp_dir, merged_file)
        sizeBranch ==
            IF Len(content) # data.total_size
            THEN [disk |-> os_remove(d, temp_dir, merged_file), files |-> f,
                  resp |-> return_message("Error: Inconsistent merged file size", 415)]
            ELSE [disk |-> d,
                  files |-> update_file_status(f, data.identifier, "complete"),
                  resp |-> return_message("Success: File upload completed successfully", 200)]
    IN IF ~is_gzip_file(data.filename) THEN {sizeBranch}
       ELSE {CASE g = "True" -> sizeBranch
               [] g = "False" ->
                    [disk |-> remove_from_uploads(d, temp_dir),
                     files |-> update_file_status(f, data.identifier, "corrupt"),
                     resp |-> return_message("Error: Truncated GZIP file", 415)]
               [] OTHER ->
                    [disk |-> d, files |-> f, resp |-> Unhandled("gzip read error")]
             : g \in gzip_test(content)}

\* generate_file without the test of line 194
generate_fileAlwaysMerges(d, f, data, all_chunks, failAt) ==
    IF all_chunks = <<>>
    THEN {[disk |-> d, files |-> f, resp |-> Unhandled("IndexError")]}
    ELSE LET m == merge_chunks(d, all_chunks, data.filename, failAt)
         IN IF ~m.ok
            THEN {[disk |-> m.disk,
                   files |-> update_file_status(f, data.identifier, "unmerged"),
                   resp |-> return_message("Error: File could not be merged", 500)]}
            ELSE Verify(m.disk, f, data, get_tempdir(data.auth_token, data.identifier))

\* generate_file: the set of outcomes when glob lists the chunks in the order
\* all_chunks and the file system fails at failAt
generate_file(d, f, data, all_chunks, failAt) ==
    LET temp_dir == get_tempdir(data.auth_token, data.identifier)
        merged_file == data.filename
    IN IF ~isfile(d, temp_dir, merged_file)
       THEN IF all_chunks = <<>>
            THEN {[disk |-> d, files |-> f,
                   resp |-> Unhandled("IndexError")]}
            ELSE LET m == merge_chunks(d, all_chunks, data.filename, failAt)
                 IN IF ~m.ok
                    THEN {[disk |-> m.disk,
                           files |-> update_file_status(f, data.identifier, "unmerged"),
                           resp |-> return_message("Error: File could not be merged", 500)]}
                    ELSE Verify(m.disk, f, data, temp_dir)
       ELSE Verify(d, f, data, temp_dir)

(***************************************************************************)
(* State                                                                   *)
(***************************************************************************)
VARIABLES
    disk,      \* disk[dir]: whether the directory exists, and its files
    files,     \* files[identifier]: the File row, keyed as the queries key it
    samples,   \* the Sample rows, as (user_id, sample_name)
    fname,     \* the file name the client uploads under
    resp,      \* the response of the latest call
    procs,     \* procs[p]: where handler p is in generate_file, and its locals
    now,       \* dt.datetime.today(), in days
    users,     \* the User rows, as user_id
    access,    \* the Access rows
    sample_rows,  \* the Sample rows with their primary keys
    target,    \* what is at the path make_tempdir is called on
    workers,   \* workers[w]: where a concurrent caller is, and its locals
    probe      \* the chunk names last formatted

ext == <<now, users, access, sample_rows, target, workers, probe>>

vars == <<disk, files, samples, fname, resp, procs, ext>>

\* the tables and callers the upload operations do not touch
ExtInit ==
    /\ now = 0
    /\ users = {}
    /\ access = {}
    /\ sample_rows = {}
    /\ target = "absent"
    /\ workers = <<>>
    /\ probe = <<>>

\* a handler that is not in a call
Idle ==
    [pc |-> "idle", total_size |-> 0, all_chunks |-> <<>>, k |-> 0,
     offset |-> 0, detached |-> FALSE, resp |-> NoResponse]

Init ==
    /\ disk = [dir \in Dirs |-> NoDir]
    /\ files = [i \in Identifiers |-> NoFile]
    /\ samples = {}
    /\ fname \in FileNames
    /\ resp = NoResponse
    /\ procs = [p \in Procs |-> Idle]
    /\ ExtInit

\* a chunk upload: make_tempdir, then the bytes are saved under
\* get_chunk_filename
WriteChunk(auth_token, identifier, chunk_number, bytes) ==
    LET temp_dir == get_tempdir(auth_token, identifier)
        path == get_chunk_filename(temp_dir, chunk_number)
    IN /\ disk' = WriteFile(make_tempdir(disk, temp_dir), path.dir, path.name, bytes)
       /\ resp' = NoResponse
       /\ UNCHANGED <<files, samples, fname, procs, ext>>

SubmitMetadata(data) ==
    /\ samples' = get_or_create_sample(samples, data.sample_name,
                                       get_user_by_auth_token(data.auth_token))
    /\ files' = get_or_create_file(files, data)
    /\ resp' = NoResponse
    /\ UNCHANGED <<disk, fname, procs, ext>>

\* what a generate_file(data) call made in this state can do: one outcome for
\* each order of the glob listing, each point of I/O failure and each way the
\* gzip read can end
Outcomes(data) ==
    LET found == get_file_chunks(disk, get_tempdir(data.auth_token, data.identifier))
    IN UNION {generate_file(disk, files, data, all_chunks, failAt) :
                all_chunks \in Orderings(found),
                failAt \in FailurePoints(Cardinality(found))}

Finalize(data) ==
    \E r \in Outcomes(data) :
        /\ disk' = r.disk
        /\ files' = r.files
        /\ resp' = r.resp
        /\ UNCHANGED <<samples, fname, procs, ext>>

Discard(auth_token, identifier) ==
    /\ disk' = remove_from_uploads(disk, get_tempdir(auth_token, identifier))
    /\ resp' = NoResponse
    /\ UNCHANGED <<files, samples, fname, procs, ext>>

FinalizeData ==
    [auth_token : Tokens, identifier : Identifiers, filename : {fname},
     total_size : TotalSizes]

MetaData ==
    [auth_token : Tokens, identifier : Identifiers, filename : {fname},
     total_size : TotalSizes, sample_name : SampleNames]

Next ==
    \/ \E t \in Tokens, i \in Identifiers, n \in ChunkNumbers, b \in Payloads :
          WriteChunk(t, i, n, b)
    \/ \E data \in MetaData : SubmitMetadata(data)
    \/ \E data \in FinalizeData : Finalize(data)
    \/ \E t \in Tokens, i \in Identifiers : Discard(t, i)

Spec == Init /\ [][Next]_vars

(***************************************************************************)
(* Concurrent finalize: generate_file one file-system or database call at  *)
(* a time, run by several request handlers on the same upload.             *)
(***************************************************************************)
\* the directory after every chunk 0..n was uploaded with contents[n]
RECURSIVE Uploaded(_, _, _, _)
Uploaded(d, dir, contents, n) ==
    IF n < 0 THEN make_tempdir(d, dir)
    ELSE WriteFile(Uploaded(d, dir, contents, n - 1), dir, ChunkName(n), contents[n])

\* all chunks are uploaded and the metadata submitted; no finalize has begun
InitConc ==
    /\ fname \in FileNames
    /\ \E contents \in [ChunkNumbers -> Payloads] :
          disk = [dir \in Dirs |->
                    Uploaded([x \in Dirs |-> NoDir], dir, contents, MaxSeq)[dir]]
    /\ \E data \in MetaData :
          /\ files = get_or_create_file([i \in Identifiers |-> NoFile], data)
          /\ samples = get_or_create_sample({}, data.sample_name,
                                            get_user_by_auth_token(data.auth_token))
    /\ resp = NoResponse
    /\ procs = [p \in Procs |-> Idle]
    /\ ExtInit

TheToken == CHOOSE t \in Tokens : TRUE
TheIdentifier == CHOOSE i \in Identifiers : TRUE
temp_dir == get_tempdir(TheToken, TheIdentifier)

\* a write of bytes at an offset of the file: a gap is filled with other bytes
Overlay(content, offset, bytes) ==
    LET gap == [i \in 1..(offset - Len(content)) |-> "X"]
        padded == content \o gap
    IN SubSeq(padded, 1, offset) \o bytes
         \o SubSeq(padded, offset + Len(bytes) + 1, Len(padded))

\* the merged file is unlinked: the handlers that have it open keep writing
\* to a file no path leads to
Detach(ps) ==
    [q \in Procs |->
        IF ps[q].pc = "merge_copy" THEN [ps[q] EXCEPT !.detached = TRUE] ELSE ps[q]]

Goto(p, pc) == [procs EXCEPT ![p].pc = pc]
Return(p, response) ==
    [procs EXCEPT ![p] = [Idle EXCEPT !.pc = "done", !.resp = response]]

\* lines 189-190: the call begins and lists the chunks
Begin(p, total_size) ==
    /\ procs[p].pc = "idle"
    /\ \E all_chunks \in Orderings(get_file_chunks(disk, temp_dir)) :
          procs' = [procs EXCEPT ![p].pc = "isfile",
                                 ![p].total_size = total_size,
                                 ![p].all_chunks = all_chunks]
    /\ UNCHANGED <<disk, files, samples, fname, resp, ext>>

\* line 194
CheckMerged(p) ==
    /\ procs[p].pc = "isfile"
    /\ procs' = Goto(p, IF isfile(disk, temp_dir, fname) THEN "gzip" ELSE "merge_open")
    /\ UNCHANGED <<disk, files, samples, fname, resp, ext>>

\* lines 168-171: sort, then open the output for writing
MergeOpen(p) ==
    /\ procs[p].pc = "merge_open"
    /\ IF procs[p].all_chunks = <<>>
       THEN /\ procs' = Return(p, Unhandled("IndexError"))
            /\ disk' = disk
       ELSE \E fails \in BOOLEAN :
              IF fails \/ ~isdir(disk, temp_dir)
              THEN /\ procs' = [procs EXCEPT ![p].pc = "merge_fail",
                                  ![p].all_chunks = SortPaths(procs[p].all_chunks)]
                   /\ disk' = disk
              ELSE /\ procs' = [procs EXCEPT ![p].pc = "merge_copy",
                                  ![p].all_chunks = SortPaths(procs[p].all_chunks),
                                  ![p].k = 1, ![p].offset = 0,
                                  ![p].detached = FALSE]
                   /\ disk' = WriteFile(disk, temp_dir, fname, <<>>)
    /\ UNCHANGED <<files, samples, fname, resp, ext>>

\* lines 172-174: copy the next chunk, or leave the with block
MergeCopy(p) ==
    /\ procs[p].pc = "merge_copy"
    /\ LET me == procs[p]
       IN IF me.k > Len(me.all_chunks)
          THEN /\ procs' = Goto(p, "gzip")
               /\ disk' = disk
          ELSE \E fails \in BOOLEAN :
                 LET path == me.all_chunks[me.k]
                 IN IF fails \/ ~isfile(disk, path.dir, path.name)
                    THEN /\ procs' = Goto(p, "merge_fail")
                         /\ disk' = disk
                    ELSE LET bytes == ReadFile(disk, path.dir, path.name)
                         IN /\ procs' = [procs EXCEPT ![p].k = @ + 1,
                                            ![p].offset = @ + Len(bytes)]
                            /\ disk' = IF me.detached THEN disk
                                       ELSE WriteFile(disk, temp_dir, fname,
                                              Overlay(ReadFile(disk, temp_dir, fname),
                                                      me.offset, bytes))
    /\ UNCHANGED <<files, samples, fname, resp, ext>>

\* lines 179-183
MergeFail(p) ==
    /\ procs[p].pc = "merge_fail"
    /\ IF isfile(disk, temp_dir, fname)
       THEN /\ disk' = os_remove(disk, temp_dir, fname)
            /\ procs' = [Detach(procs) EXCEPT ![p].pc = "set_unmerged"]
       ELSE /\ disk' = disk
            /\ procs' = Goto(p, "set_unmerged")
    /\ UNCHANGED <<files, samples, fname, resp, ext>>

\* lines 198-199
SetUnmerged(p) ==
    /\ procs[p].pc = "set_unmerged"
    /\ files' = update_file_status(files, TheIdentifier, "unmerged")
    /\ procs' = Return(p, return_message("Error: File could not be merged", 500))
    /\ UNCHANGED <<disk, samples, fname, resp, ext>>

\* line 202; gzip.open of a missing file raises IOError
GzipCheck(p) ==
    /\ procs[p].pc = "gzip"
    /\ IF ~is_gzip_file(fname)
       THEN procs' = Goto(p, "size")
       ELSE IF ~isfile(disk, temp_dir, fname)
       THEN procs' = Goto(p, "remove_uploads")
       ELSE \E g \in gzip_test(ReadFile(disk, temp_dir, fname)) :
              procs' = CASE g = "True" -> Goto(p, "size")
                         [] g = "False" -> Goto(p, "remove_uploads")
                         [] OTHER -> Return(p, Unhandled("gzip read error"))
    /\ UNCHANGED <<disk, files, samples, fname, resp, ext>>

\* line 203
RemoveUploads(p) ==
    /\ procs[p].pc = "remove_uploads"
    /\ disk' = remove_from_uploads(disk, temp_dir)
    /\ procs' = [(IF isfile(disk, temp_dir, fname) THEN Detach(procs) ELSE procs)
                    EXCEPT ![p].pc = "set_corrupt"]
    /\ UNCHANGED <<files, samples, fname, resp, ext>>

\* lines 204-205
SetCorrupt(p) ==
    /\ procs[p].pc = "set_corrupt"
    /\ files' = update_file_status(files, TheIdentifier, "corrupt")
    /\ procs' = Return(p, return_message("Error: Truncated GZIP file", 415))
    /\ UNCHANGED <<disk, samples, fname, resp, ext>>

\* line 206; os.path.getsize of a missing file raises OSError
SizeCheck(p) ==
    /\ procs[p].pc = "size"
    /\ procs' =
         IF ~isfile(disk, temp_dir, fname) THEN Return(p, Unhandled("OSError"))
         ELSE IF Len(ReadFile(disk, temp_dir, fname)) # procs[p].total_size
         THEN Goto(p, "remove_merged")
         ELSE Goto(p, "set_complete")
    /\ UNCHANGED <<disk, files, samples, fname, resp, ext>>

\* lines 208-209; os.remove of a missing file raises OSError
RemoveMerged(p) ==
    /\ procs[p].pc = "remove_merged"
    /\ IF ~isfile(disk, temp_dir, fname)
       THEN /\ procs' = Return(p, Unhandled("OSError"))
            /\ disk' = disk
       ELSE /\ disk' = os_remove(disk, temp_dir, fname)
            /\ procs' = [Detach(procs) EXCEPT
                           ![p] = [Idle EXCEPT
                                     !.pc = "done",
                                     !.resp = return_message("Error: Inconsistent merged file size", 415)]]
    /\ UNCHANGED <<files, samples, fname, resp, ext>>

\* lines 211-212
SetComplete(p) ==
    /\ procs[p].pc = "set_complete"
    /\ files' = update_file_status(files, TheIdentifier, "complete")
    /\ procs' = Return(p, return_message("Success: File upload completed successfully", 200))
    /\ UNCHANGED <<disk, samples, fname, resp, ext>>

NextConc ==
    \E p \in Procs :
        \/ \E total_size \in TotalSizes : Begin(p, total_size)
        \/ CheckMerged(p)
        \/ MergeOpen(p)
        \/ MergeCopy(p)
        \/ MergeFail(p)
        \/ SetUnmerged(p)
        \/ GzipCheck(p)
        \/ RemoveUploads(p)
        \/ SetCorrupt(p)
        \/ SizeCheck(p)
        \/ RemoveMerged(p)
        \/ SetComplete(p)

SpecConc == InitConc /\ [][NextConc]_vars

(***************************************************************************)
(* Properties.  A property of finalize is stated over Outcomes(data): what   *)
(* each call that can be made in the current state does to it.               *)
(***************************************************************************)
TheDir(data) == get_tempdir(data.auth_token, data.identifier)

\* the chunk contents of dir for sequence numbers lo..hi, in numeric order
RECURSIVE AscendingConcat(_, _, _, _)
AscendingConcat(d, dir, lo, hi) ==
    IF lo > hi THEN <<>>
    ELSE ReadFile(d, dir, ChunkName(lo)) \o AscendingConcat(d, dir, lo + 1, hi)

\* C1: when a directory holds the chunks numbered 0..N-1 (N >= 1), merging
\* the listing in any order writes the chunk contents concatenated in
\* ascending numeric order.
C1_MergeAscending ==
    \A dir \in Dirs :
        LET found == get_file_chunks(disk, dir)
            N == Cardinality(found)
        IN (N >= 1 /\ found = {get_chunk_filename(dir, n) : n \in 0..(N - 1)})
           => \A order \in Orderings(found) :
                LET m == merge_chunks(disk, order, fname, 0)
                IN /\ m.ok
                   /\ ReadFile(m.disk, dir, fname)
                        = AscendingConcat(disk, dir, 0, N - 1)

\* two chunks of different content were merged by a successful finalize
C1_Witness ==
    \E dir \in Dirs :
        /\ resp.status_code = 200
        /\ get_file_chunks(disk, dir)
             = {get_chunk_filename(dir, 0), get_chunk_filename(dir, 1)}
        /\ ReadFile(disk, dir, ChunkName(0)) # ReadFile(disk, dir, ChunkName(1))
        /\ ReadFile(disk, dir, fname)
             = ReadFile(disk, dir, ChunkName(0)) \o ReadFile(disk, dir, ChunkName(1))

\* a step of Spec is a finalize call exactly when it leaves a response:
\* resp' # NoResponse

\* C2 (as claimed): once the status is complete, corrupt or unmerged, no
\* step makes it ongoing again.
C2_NeverOngoingAgain ==
    [][\A i \in Identifiers :
          files[i].upload_status \in Terminal
              => files'[i].upload_status # "ongoing"]_vars

\* the call r got as far as the checks: the merged file was already there,
\* or there were chunks and the merge did not fail
Examined(data, r) ==
    \/ isfile(disk, TheDir(data), data.filename)
    \/ /\ get_file_chunks(disk, TheDir(data)) # {}
       /\ r.resp.status_code # 500

\* the content the checks are run on
MergedContent(data) ==
    IF isfile(disk, TheDir(data), data.filename)
    THEN ReadFile(disk, TheDir(data), data.filename)
    ELSE LET order == CHOOSE o \in Orderings(get_file_chunks(disk, TheDir(data))) : TRUE
         IN ReadFile(merge_chunks(disk, order, data.filename, 0).disk,
                     TheDir(data), data.filename)

ChunksKept(data, r) ==
    \A p \in get_file_chunks(disk, TheDir(data)) :
        /\ isfile(r.disk, p.dir, p.name)
        /\ ReadFile(r.disk, p.dir, p.name) = ReadFile(disk, p.dir, p.name)

SizeMismatchHandled(data, r) ==
    /\ r.resp.status_code = 415
    /\ ~isfile(r.disk, TheDir(data), data.filename)
    /\ ChunksKept(data, r)
    /\ r.files[data.identifier].upload_status = "complete"
          => files[data.identifier].upload_status = "complete"

\* C3 (as claimed): whenever the merged file's length differs from
\* total_size, under any file name, finalize answers 415, deletes the merged
\* file, keeps every chunk and does not set the status to complete.
C3_SizeMismatchAnyName ==
    \A data \in FinalizeData : \A r \in Outcomes(data) :
        (Examined(data, r) /\ Len(MergedContent(data)) # data.total_size)
        => SizeMismatchHandled(data, r)

\* C3 (amended): the same, for a merged file whose name is not a gzip name
\* or which passes the gzip check.
C3_SizeMismatchAfterGzip ==
    \A data \in FinalizeData :
        LET content == MergedContent(data)
            mismatch ==
                /\ Len(content) # data.total_size
                /\ is_gzip_file(data.filename) => GzipRead(content) = {"ok"}
        IN \A r \in Outcomes(data) :
             (Examined(data, r) /\ mismatch) => SizeMismatchHandled(data, r)

\* a size mismatch was answered for a gzip-named upload, and its chunks are
\* still on disk
C3_Witness ==
    \E dir \in Dirs :
        /\ resp = return_message("Error: Inconsistent merged file size", 415)
        /\ is_gzip_file(fname)
        /\ Cardinality(get_file_chunks(disk, dir)) = 2
        /\ ~isfile(disk, dir, fname)

\* C4 (as claimed): finalize of a gzip-named upload whose merged content is
\* a truncated or corrupted gzip stream answers 415 "Truncated GZIP file",
\* sets the status corrupt and removes the chunks and the directory.
C4_CorruptGzipRejected ==
    [][\A data \in FinalizeData :
          (/\ resp' # NoResponse
           /\ Examined(data, [resp |-> resp'])
           /\ is_gzip_file(data.filename)
           /\ "ok" \notin GzipRead(MergedContent(data)))
          => /\ resp' = return_message("Error: Truncated GZIP file", 415)
             /\ files[data.identifier].exists
                  => files'[data.identifier].upload_status = "corrupt"
             /\ ~isdir(disk', TheDir(data))]_vars

FinalizeOutcomes ==
    {return_message("Success: File upload completed successfully", 200),
     return_message("Error: Truncated GZIP file", 415),
     return_message("Error: Inconsistent merged file size", 415),
     return_message("Error: File could not be merged", 500)}

\* C5 (as claimed): every finalize call, in every state of the upload
\* directory, ends in one of the four outcomes.
C5_FourOutcomes ==
    [][resp' # NoResponse => resp' \in FinalizeOutcomes]_vars

\* in (d, f) the upload is complete for these arguments: the merged file is
\* there, of total_size bytes, passing the gzip check if it has a gzip name
CompleteFor(d, f, data) ==
    /\ isfile(d, TheDir(data), data.filename)
    /\ Len(ReadFile(d, TheDir(data), data.filename)) = data.total_size
    /\ is_gzip_file(data.filename)
          => GzipRead(ReadFile(d, TheDir(data), data.filename)) = {"ok"}
    /\ f[data.identifier].upload_status = "complete"

\* C6: a finalize that finds the merged file present does not merge: the
\* file afterwards is the same file unless a check deleted it, and the call
\* neither answers merge-failed nor fails on the chunk list.  A finalize
\* that answers 200 leaves the upload complete for its arguments, and
\* repeating a finalize on an upload complete for its arguments answers 200
\* and changes neither the directory nor the status.
C6_NoRemerge ==
    \A data \in FinalizeData : \A r \in Outcomes(data) :
        /\ isfile(disk, TheDir(data), data.filename) =>
             /\ isfile(r.disk, TheDir(data), data.filename)
                  => ReadFile(r.disk, TheDir(data), data.filename)
                       = ReadFile(disk, TheDir(data), data.filename)
             /\ r.resp.status_code # 500
             /\ r.resp # Unhandled("IndexError")
        /\ (r.resp.status_code = 200 /\ r.files[data.identifier].exists)
             => CompleteFor(r.disk, r.files, data)
        /\ CompleteFor(disk, files, data) =>
             /\ r.resp.status_code = 200
             /\ r.disk = disk
             /\ r.files[data.identifier].upload_status = "complete"

\* a finalize answered 200 on a merged file that is not what the chunks now
\* on disk merge to: it verified the file that was there
C6_Witness ==
    \E dir \in Dirs :
        /\ resp.status_code = 200
        /\ files["abc"].upload_status = "complete"
        /\ get_file_chunks(disk, dir) # {}
        /\ \A order \in Orderings(get_file_chunks(disk, dir)) :
              ReadFile(disk, dir, fname) # ConcatFiles(disk, SortPaths(order))

\* C7 (as claimed): a complete upload has its merged file at
\* <upload dir>/<filename>, of the declared total_size, passing the gzip
\* check when the name is a gzip name.
C7_CompleteHasVerifiedFile ==
    \A t \in Tokens, i \in Identifiers :
        (files[i].upload_status = "complete"
            /\ files[i].user_id = get_user_by_auth_token(t))
        => LET dir == get_tempdir(t, i)
           IN /\ isfile(disk, dir, files[i].filename)
              /\ Len(ReadFile(disk, dir, files[i].filename)) = files[i].total_size
              /\ is_gzip_file(files[i].filename)
                    => "ok" \in GzipRead(ReadFile(disk, dir, files[i].filename))

\* C8 (as claimed): a finalize on an upload whose status is complete,
\* corrupt or unmerged leaves the status as it is.
C8_TerminalStaysPut ==
    [][\A i \in Identifiers :
          (resp' # NoResponse /\ files[i].upload_status \in Terminal)
          => files'[i].upload_status = files[i].upload_status]_vars

\* C10 (as claimed): an ongoing upload has no end timestamp, and a complete,
\* corrupt or unmerged one has.
C10_EndDateIffTerminal ==
    \A i \in Identifiers :
        /\ files[i].upload_status = "ongoing" => files[i].upload_end_date = "None"
        /\ files[i].upload_status \in Terminal => files[i].upload_end_date # "None"

\* handler p is merging or verifying
Active(p) == procs[p].pc \notin {"idle", "isfile", "done"}

\* handler p has the merged file open for writing
Writing(p) == procs[p].pc = "merge_copy"

\* handler p is about to read, measure or delete the merged file
Checking(p) == procs[p].pc \in {"gzip", "size", "remove_merged", "remove_uploads"}

\* C9 (as claimed): at most one finalize call on an upload is inside
\* merge-and-verify at a time, and none checks or deletes the merged file
\* while another call is writing it.
C9_OneFinalizeAtATime ==
    \A p, q \in Procs :
        p # q => /\ ~(Active(p) /\ Active(q))
                 /\ ~(Writing(p) /\ Checking(q))

(***************************************************************************)
(* Transfer codes: the Server, User and Access tables                      *)
(***************************************************************************)
MaxTime == 3       \* the clock runs over the days 0..MaxTime

\* server_token -> server_id of the Server rows
ServerIds == [srvtoken1 |-> "server1"]
ServerTokens == DOMAIN ServerIds
AnyServerToken == ServerTokens \cup {"unknown"}
UserNames == {"alice", "bob"}
\* the values base64.urlsafe_b64encode(os.urandom(12)) can take
AuthTokens == {"a1", "a2", "a3"}
Durations == {1, 2}

\* Access.query.filter_by(auth_token=auth_token).first()
AccessOf(acc, auth_token) ==
    IF \E a \in acc : a.auth_token = auth_token
    THEN {CHOOSE a \in acc : a.auth_token = auth_token}
    ELSE {}

get_auth_statusExpiresEarly(acc, current_time, auth_token) ==
    LET found == AccessOf(acc, auth_token)
    IN IF found = {} THEN "not found"
       ELSE IF \E a \in found : current_time >= a.expiration_date THEN "expired"
       ELSE "valid"

get_auth_status(acc, current_time, auth_token) ==
    LET found == AccessOf(acc, auth_token)
    IN IF found = {} THEN "not found"
       ELSE IF \E a \in found : current_time > a.expiration_date THEN "expired"
       ELSE "valid"

get_auth_response(auth_status) ==
    IF auth_status = "valid"
    THEN return_message("Success: Valid transfer code", 200)
    ELSE IF auth_status = "expired"
    THEN return_message("Error: Transfer code has expired", 410)
    ELSE IF auth_status = "not found"
    THEN return_message("Error: Transfer code does not exist", 404)
    ELSE return_message("Error: Unexpected authentication status", 500)

\* generate_auth_token that commits a new user before the token is made
generate_auth_tokenUserFirst(us, acc, current_date, server_token, username, duration_days, auth_token) ==
    IF server_token \notin ServerTokens
    THEN [users |-> us, access |-> acc, raised |-> "InvalidServerToken"]
    ELSE LET user_id == ServerIds[server_token] \o "/" \o username
         IN IF user_id \notin us
            THEN [users |-> us \cup {user_id}, access |-> acc, raised |-> ""]
            ELSE [users |-> us,
                  access |-> acc \cup
                     {[auth_token |-> auth_token, user_id |-> user_id,
                       creation_date |-> current_date,
                       expiration_date |-> current_date + duration_days]},
                  raised |-> ""]

\* generate_auth_token, with auth_token the random value drawn: the tables
\* after its one commit, or the exception raised before any change
generate_auth_token(us, acc, current_date, server_token, username, duration_days, auth_token) ==
    IF server_token \notin ServerTokens
    THEN [users |-> us, access |-> acc, raised |-> "InvalidServerToken"]
    ELSE LET user_id == ServerIds[server_token] \o "/" \o username
         IN [users |-> us \cup {user_id},
             access |-> acc \cup
                {[auth_token |-> auth_token, user_id |-> user_id,
                  creation_date |-> current_date,
                  expiration_date |-> current_date + duration_days]},
             raised |-> ""]

\* a random value is taken not to repeat one drawn before
FreshTokens == {t \in AuthTokens : AccessOf(access, t) = {}}

Issue(server_token, username, duration_days) ==
    \E auth_token \in FreshTokens :
        LET r == generate_auth_token(users, access, now, server_token, username,
                                     duration_days, auth_token)
        IN /\ users' = r.users
           /\ access' = r.access
           /\ resp' = IF r.raised # "" THEN Unhandled(r.raised)
                      ELSE return_message(auth_token, 200)
           /\ UNCHANGED <<disk, files, samples, fname, procs, now,
                          sample_rows, target, workers, probe>>

CheckStatus(auth_token) ==
    /\ resp' = get_auth_response(get_auth_status(access, now, auth_token))
    /\ UNCHANGED <<disk, files, samples, fname, procs, ext>>

Tick ==
    /\ now < MaxTime
    /\ now' = now + 1
    /\ resp' = NoResponse
    /\ UNCHANGED <<disk, files, samples, fname, procs, users, access,
                   sample_rows, target, workers, probe>>

NextAuth ==
    \/ \E st \in AnyServerToken, u \in UserNames, d \in Durations : Issue(st, u, d)
    \/ \E t \in AuthTokens : CheckStatus(t)
    \/ Tick

InitAuth == Init /\ fname = <<"data", ".bin">>

SpecAuth == InitAuth /\ [][NextAuth]_vars

Issued(auth_token) == \E a \in access : a.auth_token = auth_token

\* C11: get_auth_status gives 'not found' for a token never issued,
\* 'expired' for an issued token with now > expiration_date and 'valid' for
\* an issued token with now <= expiration_date, nothing else, and the
\* responses are 404, 410 and 200.
C11_ThreeWayStatus ==
    \A t \in AuthTokens :
        LET status == get_auth_status(access, now, t)
            code == get_auth_response(status).status_code
        IN /\ status \in {"not found", "expired", "valid"}
           /\ ~Issued(t) => status = "not found" /\ code = 404
           /\ \A a \in access :
                a.auth_token = t =>
                  /\ now > a.expiration_date => status = "expired" /\ code = 410
                  /\ now <= a.expiration_date => status = "valid" /\ code = 200

\* a token was found valid on the day it expires
C11_Witness ==
    /\ access # {}
    /\ \A a \in access : a.expiration_date = now
    /\ resp = return_message("Success: Valid transfer code", 200)

\* C17: issuance with an unknown server token raises and changes no table;
\* with a known one it adds the user if absent and exactly one Access row,
\* for that user, and leaves the rows that were there and their status as
\* they were; every user has an Access row.
C17_Issuance ==
    /\ \A u \in users : \E a \in access : a.user_id = u
    /\ \A st \in AnyServerToken, u \in UserNames, d \in Durations, t \in FreshTokens :
         LET r == generate_auth_token(users, access, now, st, u, d, t)
         IN IF st \notin ServerTokens
            THEN /\ r.raised = "InvalidServerToken"
                 /\ r.users = users /\ r.access = access
            ELSE /\ r.raised = ""
                 /\ access \subseteq r.access
                 /\ Cardinality(r.access \ access) = 1
                 /\ \A a \in r.access \ access :
                      /\ a.auth_token = t
                      /\ a.user_id \in r.users
                      /\ r.users = users \cup {a.user_id}
                 /\ \A old \in AuthTokens \ {t} :
                      get_auth_status(r.access, now, old)
                        = get_auth_status(access, now, old)

\* a second token was issued to a user who had one
C17_Witness ==
    /\ \E a, b \in access : a.user_id = b.user_id /\ a.auth_token # b.auth_token
    /\ Cardinality(users) = 1
    /\ resp.status_code = 200
    /\ resp.message \in AuthTokens

(***************************************************************************)
(* Two owners who use the same identifier                                  *)
(***************************************************************************)
OwnerTokens == {"t1", "t2"}
OwnerDirs == {get_tempdir(t, i) : t \in OwnerTokens, i \in Identifiers}
OwnerPayloads == {<<"X", "X">>}

OwnerMetaData ==
    [auth_token : OwnerTokens, identifier : Identifiers, filename : {fname},
     total_size : TotalSizes, sample_name : SampleNames]

OwnerFinalizeData ==
    [auth_token : OwnerTokens, identifier : Identifiers, filename : {fname},
     total_size : TotalSizes]

InitOwners ==
    /\ disk = [dir \in OwnerDirs |-> NoDir]
    /\ files = [i \in Identifiers |-> NoFile]
    /\ samples = {}
    /\ fname = <<"data", ".bin">>
    /\ resp = NoResponse
    /\ procs = [p \in Procs |-> Idle]
    /\ ExtInit

NextOwners ==
    \/ \E t \in OwnerTokens, i \in Identifiers, b \in OwnerPayloads :
          WriteChunk(t, i, 0, b)
    \/ \E data \in OwnerMetaData : SubmitMetadata(data)
    \/ \E data \in OwnerFinalizeData : Finalize(data)
    \/ \E t \in OwnerTokens, i \in Identifiers : Discard(t, i)

SpecOwners == InitOwners /\ [][NextOwners]_vars

\* C12: a metadata submission or a finalize made by one owner with
\* identifier X leaves every field of the File row X of another owner as
\* it was.
C12_OtherOwnersRowKept ==
    /\ \A data \in OwnerMetaData :
         LET file == files[data.identifier]
         IN file.exists /\ file.user_id # get_user_by_auth_token(data.auth_token)
              => get_or_create_file(files, data)[data.identifier] = file
    /\ \A data \in OwnerFinalizeData :
         LET file == files[data.identifier]
         IN file.exists /\ file.user_id # get_user_by_auth_token(data.auth_token)
              => \A r \in Outcomes(data) : r.files[data.identifier] = file

(***************************************************************************)
(* I/O failure during the merge, and what a successful finalize leaves     *)
(***************************************************************************)
\* the upload of a file that is not gzipped, for the merge on its own
InitMerge == Init /\ fname = <<"data", ".bin">>

SpecMerge == InitMerge /\ [][Next]_vars

\* the upload of a plain file or of a gzipped one
InitKeep == Init /\ fname \in {<<"data", ".bin">>, <<"data", ".gz">>}

SpecKeep == InitKeep /\ [][Next]_vars

\* the upload of a plain file or of one with an upper-case gzip extension
InitSize == Init /\ fname \in {<<"data", ".bin">>, <<"data", ".TGZ">>}

SpecSize == InitSize /\ [][Next]_vars

\* the same uploads, for the finalize that is repeated
SpecRepeat == InitKeep /\ [][Next]_vars

SameChunks(d, e, dir) ==
    /\ get_file_chunks(e, dir) = get_file_chunks(d, dir)
    /\ \A c \in get_file_chunks(d, dir) :
         ReadFile(e, c.dir, c.name) = ReadFile(d, c.dir, c.name)

\* C13: when merge_chunks runs (no merged file yet, some chunk present) and
\* an IOError strikes at the opening of the output or at any chunk, then
\* after generate_file there is no merged file, the response is the 500
\* merge failure, the File row, if there is one, is unmerged, and every
\* chunk is as it was; merge_chunks returns True only with every chunk
\* copied to the output.
C13_MergeFailureCleansUp ==
    \A data \in FinalizeData :
        LET dir == get_tempdir(data.auth_token, data.identifier)
            found == get_file_chunks(disk, dir)
        IN ~isfile(disk, dir, data.filename) /\ found # {} =>
             \A all_chunks \in Orderings(found),
                failAt \in FailurePoints(Cardinality(found)) :
                LET m == merge_chunks(disk, all_chunks, data.filename, failAt)
                IN /\ m.ok <=> failAt = 0
                   /\ m.ok =>
                        /\ isfile(m.disk, dir, data.filename)
                        /\ ReadFile(m.disk, dir, data.filename)
                             = ConcatFiles(disk, SortPaths(all_chunks))
                        /\ Len(SortPaths(all_chunks)) = Cardinality(found)
                   /\ failAt # 0 =>
                        \A r \in generate_file(disk, files, data, all_chunks, failAt) :
                           /\ ~isfile(r.disk, dir, data.filename)
                           /\ r.resp = return_message("Error: File could not be merged", 500)
                           /\ files[data.identifier].exists =>
                                r.files[data.identifier].upload_status = "unmerged"
                           /\ SameChunks(disk, r.disk, dir)

\* a finalize over two chunks failed to merge: the row is unmerged, both
\* chunks are there and there is no merged file
C13_Witness ==
    \E dir \in Dirs :
        /\ resp = return_message("Error: File could not be merged", 500)
        /\ \E i \in Identifiers : files[i].upload_status = "unmerged"
        /\ Cardinality(get_file_chunks(disk, dir)) = 2
        /\ ~isfile(disk, dir, fname)

\* C14: a generate_file call that answers 200 leaves the chunk files and
\* their contents as they were; on disk only the merged file may differ,
\* and in the File table only upload_status and upload_end_date of the row.
C14_SuccessKeepsChunks ==
    \A data \in FinalizeData :
        LET dir == get_tempdir(data.auth_token, data.identifier)
        IN \A r \in Outcomes(data) :
             r.resp.status_code = 200 =>
               /\ SameChunks(disk, r.disk, dir)
               /\ isdir(r.disk, dir)
               /\ \A n \in (DOMAIN disk[dir].entries) \cup (DOMAIN r.disk[dir].entries) :
                    n # data.filename =>
                      /\ n \in DOMAIN disk[dir].entries
                      /\ n \in DOMAIN r.disk[dir].entries
                      /\ r.disk[dir].entries[n] = disk[dir].entries[n]
               /\ \A other \in Dirs \ {dir} : r.disk[other] = disk[other]
               /\ \A i \in Identifiers :
                    r.files[i] = [files[i] EXCEPT
                                    !.upload_status = r.files[i].upload_status,
                                    !.upload_end_date = r.files[i].upload_end_date]
               /\ \A i \in Identifiers \ {data.identifier} : r.files[i] = files[i]

\* a finalize over two chunks answered 200 and both chunks are still there
\* beside the merged file
C14_Witness ==
    \E dir \in Dirs :
        /\ resp = return_message("Success: File upload completed successfully", 200)
        /\ Cardinality(get_file_chunks(disk, dir)) = 2
        /\ isfile(disk, dir, fname)
        /\ \E i \in Identifiers : files[i].upload_status = "complete"

(***************************************************************************)
(* get_or_create_sample, statement by statement, in concurrent requests    *)
(***************************************************************************)
SampleUsers == {get_user_by_auth_token(t) : t \in Tokens}
RaceSampleNames == {"s1", "s2"}
NoSample == [id |-> 0, user_id |-> "", sample_name |-> ""]

\* a request that is not in get_or_create_sample
NoCall ==
    [pc |-> "idle", user_id |-> "", sample_name |-> "", sample |-> NoSample,
     conflict |-> FALSE]

\* Sample.query.filter_by(user_id=user_id, sample_name=sample_name).first()
SampleQuery(rows, user_id, sample_name) ==
    IF \E r \in rows : r.user_id = user_id /\ r.sample_name = sample_name
    THEN CHOOSE r \in rows : r.user_id = user_id /\ r.sample_name = sample_name
    ELSE NoSample

\* a query after the rollback that does not see the other request's row
SampleRequeryStale(rows, user_id, sample_name) == NoSample

\* line 264: the query after the rollback
SampleRequery(rows, user_id, sample_name) ==
    SampleQuery(rows, user_id, sample_name)

InitSample ==
    /\ disk = [dir \in Dirs |-> NoDir]
    /\ files = [i \in Identifiers |-> NoFile]
    /\ samples = {}
    /\ fname = <<"data", ".bin">>
    /\ resp = NoResponse
    /\ procs = [p \in Procs |-> Idle]
    /\ now = 0 /\ access = {} /\ target = "absent" /\ probe = <<>>
    /\ users = SampleUsers
    /\ sample_rows = {}
    /\ workers = [p \in Procs |-> NoCall]

SampleFrame ==
    UNCHANGED <<disk, files, samples, fname, resp, procs, now, users, access,
                target, probe>>

SampleCall(p, sample_name, user_id) ==
    /\ workers[p].pc = "idle"
    /\ workers' = [workers EXCEPT ![p] =
                     [NoCall EXCEPT !.pc = "query", !.user_id = user_id,
                                    !.sample_name = sample_name]]
    /\ UNCHANGED sample_rows
    /\ SampleFrame

\* line 252 and the test of line 254
SampleFirst(p) ==
    /\ workers[p].pc = "query"
    /\ LET sample == SampleQuery(sample_rows, workers[p].user_id,
                                 workers[p].sample_name)
       IN workers' = [workers EXCEPT ![p].sample = sample,
                        ![p].pc = IF sample = NoSample THEN "commit" ELSE "done"]
    /\ UNCHANGED sample_rows
    /\ SampleFrame

\* lines 255-260: the insert and its commit, refused with IntegrityError
\* when a row of this user and name is there
SampleCommit(p) ==
    /\ workers[p].pc = "commit"
    /\ LET w == workers[p]
           row == [id |-> Cardinality(sample_rows) + 1, user_id |-> w.user_id,
                   sample_name |-> w.sample_name]
       IN IF SampleQuery(sample_rows, w.user_id, w.sample_name) = NoSample
          THEN /\ sample_rows' = sample_rows \cup {row}
               /\ workers' = [workers EXCEPT ![p].sample = row, ![p].pc = "done"]
          ELSE /\ UNCHANGED sample_rows
               /\ workers' = [workers EXCEPT ![p].conflict = TRUE,
                                             ![p].pc = "rollback"]
    /\ SampleFrame

\* lines 261-264: rollback, query again and return what is found
SampleRollback(p) ==
    /\ workers[p].pc = "rollback"
    /\ workers' = [workers EXCEPT
                     ![p].sample = SampleRequery(sample_rows, workers[p].user_id,
                                                 workers[p].sample_name),
                     ![p].pc = "done"]
    /\ UNCHANGED sample_rows
    /\ SampleFrame

\* the caller takes the sample returned
SampleReturn(p) ==
    /\ workers[p].pc = "done"
    /\ workers' = [workers EXCEPT ![p] = NoCall]
    /\ UNCHANGED sample_rows
    /\ SampleFrame

NextSample ==
    \E p \in Procs :
        \/ \E n \in RaceSampleNames, u \in SampleUsers : SampleCall(p, n, u)
        \/ SampleFirst(p)
        \/ SampleCommit(p)
        \/ SampleRollback(p)
        \/ SampleReturn(p)

SpecSample == InitSample /\ [][NextSample]_vars

\* C15: calls of get_or_create_sample that race on one (user_id,
\* sample_name) all return the one Sample row of that pair: a call that has
\* finished holds a row of the table with its user and name, never None,
\* calls with the same arguments hold the same row, and the table has one
\* row for the pair.
C15_RaceReturnsOneSample ==
    /\ \A r1, r2 \in sample_rows :
         r1.user_id = r2.user_id /\ r1.sample_name = r2.sample_name => r1 = r2
    /\ \A p \in Procs :
         workers[p].pc = "done" =>
           /\ workers[p].sample # NoSample
           /\ workers[p].sample \in sample_rows
           /\ workers[p].sample.user_id = workers[p].user_id
           /\ workers[p].sample.sample_name = workers[p].sample_name
    /\ \A p, q \in Procs :
         /\ workers[p].pc = "done" /\ workers[q].pc = "done"
         /\ workers[p].user_id = workers[q].user_id
         /\ workers[p].sample_name = workers[q].sample_name
         => workers[p].sample = workers[q].sample

\* two calls with the same arguments have finished, one of them after its
\* commit was refused, and the table holds exactly their one row
C15_Witness ==
    \E p, q \in Procs :
        /\ p # q
        /\ workers[p].pc = "done" /\ workers[q].pc = "done"
        /\ workers[p].sample_name = workers[q].sample_name
        /\ workers[p].conflict /\ ~workers[q].conflict
        /\ workers[p].sample = workers[q].sample
        /\ sample_rows = {workers[p].sample}

(***************************************************************************)
(* make_tempdir, statement by statement, in concurrent requests            *)
(***************************************************************************)
\* what is at the path: nothing, a directory, or a file
PathKinds == {"absent", "dir", "file"}

NoMkdir == [pc |-> "idle", errno |-> "", outcome |-> ""]

InitMkdir ==
    /\ disk = [dir \in Dirs |-> NoDir]
    /\ files = [i \in Identifiers |-> NoFile]
    /\ samples = {}
    /\ fname = <<"data", ".bin">>
    /\ resp = NoResponse
    /\ procs = [p \in Procs |-> Idle]
    /\ now = 0 /\ users = {} /\ access = {} /\ sample_rows = {} /\ probe = <<>>
    /\ target \in PathKinds
    /\ workers = [p \in Procs |-> NoMkdir]

MkdirFrame ==
    UNCHANGED <<disk, files, samples, fname, resp, procs, now, users, access,
                sample_rows, probe>>

MkdirCall(p) ==
    /\ workers[p].pc = "idle"
    /\ workers' = [workers EXCEPT ![p] = [NoMkdir EXCEPT !.pc = "isdir"]]
    /\ UNCHANGED target
    /\ MkdirFrame

\* line 150: if not os.path.isdir(dirname)
MkdirIsdir(p) ==
    /\ workers[p].pc = "isdir"
    /\ workers' = [workers EXCEPT
                     ![p].pc = IF target = "dir" THEN "done" ELSE "makedirs",
                     ![p].outcome = IF target = "dir" THEN "returned" ELSE ""]
    /\ UNCHANGED target
    /\ MkdirFrame

\* line 152: os.makedirs(dirname, 511) creates the directory, or raises
\* OSError: EEXIST when something is at the path, or another errno
\* (EACCES, ENOSPC, ...) whatever is at the path
MkdirMakedirs(p) ==
    /\ workers[p].pc = "makedirs"
    /\ \/ /\ target = "absent"
          /\ target' = "dir"
          /\ workers' = [workers EXCEPT ![p].pc = "done",
                                        ![p].outcome = "returned"]
       \/ /\ target # "absent"
          /\ UNCHANGED target
          /\ workers' = [workers EXCEPT ![p].pc = "except",
                                        ![p].errno = "EEXIST"]
       \/ /\ UNCHANGED target
          /\ workers' = [workers EXCEPT ![p].pc = "except",
                                        ![p].errno = "EACCES"]
    /\ MkdirFrame

\* make_tempdir whose handler raises on every OSError
MkdirExceptStrict(p) ==
    /\ workers[p].pc = "except"
    /\ workers' = [workers EXCEPT ![p].pc = "done",
                                  ![p].outcome = "DirectoryCreationError"]
    /\ UNCHANGED target
    /\ MkdirFrame

\* lines 153-156: if e.errno != errno.EEXIST or not os.path.isdir(dirname)
MkdirExcept(p) ==
    /\ workers[p].pc = "except"
    /\ workers' = [workers EXCEPT
                     ![p].pc = "done",
                     ![p].outcome =
                        IF workers[p].errno # "EEXIST" \/ target # "dir"
                        THEN "DirectoryCreationError" ELSE "returned"]
    /\ UNCHANGED target
    /\ MkdirFrame

\* the caller goes on, or the exception leaves the handler
MkdirReturn(p) ==
    /\ workers[p].pc = "done"
    /\ workers' = [workers EXCEPT ![p] = NoMkdir]
    /\ UNCHANGED target
    /\ MkdirFrame

NextMkdir ==
    \E p \in Procs :
        \/ MkdirCall(p)
        \/ MkdirIsdir(p)
        \/ MkdirMakedirs(p)
        \/ MkdirExcept(p)
        \/ MkdirReturn(p)

SpecMkdir == InitMkdir /\ [][NextMkdir]_vars

\* C16: a make_tempdir call whose makedirs found the directory made by
\* another call (EEXIST, and a directory at the path) returns normally; a
\* call raises DirectoryCreationError exactly when makedirs failed with
\* another errno or what is at the path is not a directory; a call that
\* returned normally leaves a directory at the path.
C16_LostRaceTolerated ==
    \A p \in Procs :
        workers[p].pc = "done" =>
          /\ workers[p].outcome \in {"returned", "DirectoryCreationError"}
          /\ workers[p].outcome = "DirectoryCreationError"
               <=> \/ workers[p].errno \notin {"", "EEXIST"}
                   \/ workers[p].errno = "EEXIST" /\ target # "dir"
          /\ workers[p].outcome = "returned" => target = "dir"

\* a call lost the race (its makedirs raised EEXIST on the directory another
\* call had just made) and returned normally
C16_Witness ==
    \E p \in Procs :
        /\ workers[p].pc = "done"
        /\ workers[p].errno = "EEXIST"
        /\ workers[p].outcome = "returned"
        /\ target = "dir"

(***************************************************************************)
(* update_file: the field update of the administration interface          *)
(***************************************************************************)
\* the columns of the File row that the model keeps
FileColumns == (DOMAIN NoFile) \ {"exists", "samples"}
StatusValues == {"complete", "archived"}
ArchivedValues == {0, 1}

\* update_file: the table and the response, or InvalidServerToken raised
update_file(f, server_token, identifier, column, value) ==
    IF server_token \notin ServerTokens
    THEN [files |-> f, resp |-> Unhandled("InvalidServerToken")]
    ELSE IF ~f[identifier].exists
    THEN [files |-> f, resp |-> return_message("Error: File does not exist", 404)]
    ELSE IF column \notin FileColumns
    THEN [files |-> f, resp |-> return_message("Error: Column does not exist", 400)]
    ELSE [files |-> [f EXCEPT ![identifier] = [@ EXCEPT ![column] = value]],
          resp |-> return_message("Success: File archive_status updated", 200)]

UpdateFile(server_token, identifier, column, value) ==
    LET r == update_file(files, server_token, identifier, column, value)
    IN /\ files' = r.files
       /\ resp' = r.resp
       /\ UNCHANGED <<disk, samples, fname, procs, ext>>

InitAdmin == Init /\ fname = <<"data", ".bin">>

NextAdmin ==
    \/ Next
    \/ \E st \in AnyServerToken, i \in Identifiers :
          \/ \E v \in StatusValues : UpdateFile(st, i, "upload_status", v)
          \/ \E v \in ArchivedValues : UpdateFile(st, i, "is_archived", v)
          \/ UpdateFile(st, i, "no_such_column", 1)

SpecAdmin == InitAdmin /\ [][NextAdmin]_vars

\* C18: the upload_status of every File row is one of ongoing, complete,
\* corrupt, unmerged, whatever operation ran, update_file included.
C18_StatusInEnum ==
    \A i \in Identifiers : files[i].exists => files[i].upload_status \in Statuses

(***************************************************************************)
(* Chunk names over the whole range of the fixed width                     *)
(***************************************************************************)
\* the largest number that "{:08d}" writes in ChunkWidth digits
MaxChunkNumber == 10^ChunkWidth - 1

\* the numbers around every change in the count of digits, and two inside
ProbeNumbers ==
    {n \in UNION {{10^k - 1, 10^k, 10^k + 1} : k \in 0..ChunkWidth}
          \cup {12345678, 12345687} : n <= MaxChunkNumber}

InitNames ==
    /\ disk = [dir \in Dirs |-> NoDir]
    /\ files = [i \in Identifiers |-> NoFile]
    /\ samples = {}
    /\ fname = <<"data", ".bin">>
    /\ resp = NoResponse
    /\ procs = [p \in Procs |-> Idle]
    /\ ExtInit

\* get_chunk_filename for two chunk numbers of one upload, and the order
\* chunk_paths.sort() puts the two paths in
NameChunks(a, b) ==
    LET pa == get_chunk_filename(temp_dir, a)
        pb == get_chunk_filename(temp_dir, b)
    IN /\ probe' = <<a, b, pa, pb, SortPaths(<<pb, pa>>)>>
       /\ UNCHANGED <<disk, files, samples, fname, resp, procs, now, users,
                      access, sample_rows, target, workers>>

NextNames == \E a, b \in ProbeNumbers : NameChunks(a, b)

SpecNames == InitNames /\ [][NextNames]_vars

\* C19: for chunk numbers a < b in 0..99,999,999 the name of a sorts before
\* the name of b (and the sort of merge_chunks puts a first); different
\* numbers have different names and equal numbers the same name.
C19_NameOrderIsNumberOrder ==
    Len(probe) = 5 =>
      LET a == probe[1]
          b == probe[2]
          pa == probe[3]
          pb == probe[4]
      IN /\ a < b => /\ LexLess(pa.name, pb.name)
                     /\ ~LexLess(pb.name, pa.name)
                     /\ probe[5] = <<pa, pb>>
         /\ a # b => pa # pb
         /\ a = b => pa = pb
         /\ Len(pa.name) = ChunkWidth + 1

\* the names of 9,999,999 and 99,999,999 were made and compared
C19_Witness ==
    /\ Len(probe) = 5
    /\ probe[1] = 10^(ChunkWidth - 1) - 1
    /\ probe[2] = MaxChunkNumber
    /\ probe[3].name # probe[4].name

====
